---- MODULE Spec2Model ----
(***************************************************************************)
(* Model of iso_analysis.py: the Exemption model, the progressive          *)
(* TaxSchedule (construction-time validation and compute_tax) and the      *)
(* spread solver compute_spread.                                           *)
(*                                                                         *)
(* Numbers.  Money amounts are integers.  A rate r in [0,1] is the integer *)
(* r * RateDen.  Exemption.compute therefore yields its result times       *)
(* RateDen, taxable income is carried times RateDen and a tax times        *)
(* RateDen * RateDen; with these scalings every product and difference of  *)
(* the source is computed exactly (real arithmetic, no rounding).          *)
(* An Optional[float] field is a set: {} is None, {v} is the value v.      *)
(***************************************************************************)
EXTENDS Integers, Sequences, FiniteSets, TLC

RateDen == 100

\* bounds of the enumerated inputs
MaxBrackets == 2
MaxThreshold == 1
MaxBase == 3
MaxStart == 1
MaxIncome == 5

Max(a, b) == IF a >= b THEN a ELSE b
Min(a, b) == IF a <= b THEN a ELSE b
Abs(a) == IF a >= 0 THEN a ELSE -a

None == {}
Some(v) == {v}
Val(o) == CHOOSE v \in o : TRUE

(***************************************************************************)
(* TaxBracket, Exemption: pydantic field constraints                       *)
(***************************************************************************)
TaxBracket(t, r) == [threshold |-> t, rate |-> r]

TaxBracketValid(b) ==
    /\ b.threshold >= 0
    /\ b.rate >= 0
    /\ b.rate <= RateDen

Exemption(b, s, r) == [base_amount |-> b, phaseout_start |-> s, phaseout_rate |-> r]

ExemptionValid(e) ==
    /\ e.base_amount >= 0
    /\ (e.phaseout_start # None => Val(e.phaseout_start) >= 0)
    /\ (e.phaseout_rate # None =>
            /\ Val(e.phaseout_rate) >= 0
            /\ Val(e.phaseout_rate) <= RateDen)

PhaseoutConfigured(e) == e.phaseout_start # None /\ e.phaseout_rate # None

(***************************************************************************)
(* Exemption.compute; the result is scaled by RateDen                      *)
(***************************************************************************)
ExemptionComputeOr(e, income) ==
    IF (e.phaseout_start # None \/ e.phaseout_rate # None)
       /\ income > (IF e.phaseout_start # None THEN Val(e.phaseout_start) ELSE 0)
    THEN Max(e.base_amount * RateDen
               - (IF e.phaseout_rate # None THEN Val(e.phaseout_rate) ELSE RateDen)
                 * (income - (IF e.phaseout_start # None
                              THEN Val(e.phaseout_start) ELSE 0)), 0)
    ELSE e.base_amount * RateDen

ExemptionComputeNoFloor(e, income) ==
    IF e.phaseout_start # None /\ e.phaseout_rate # None
       /\ income > Val(e.phaseout_start)
    THEN e.base_amount * RateDen
           - Val(e.phaseout_rate) * (income - Val(e.phaseout_start))
    ELSE e.base_amount * RateDen

ExemptionCompute(e, income) ==
    LET exemption == e.base_amount * RateDen
    IN  IF e.phaseout_start # None /\ e.phaseout_rate # None
        THEN IF income > Val(e.phaseout_start)
             THEN LET reduction == Val(e.phaseout_rate) * (income - Val(e.phaseout_start))
                  IN  Max(exemption - reduction, 0)
             ELSE exemption
        ELSE exemption

(***************************************************************************)
(* TaxSchedule.brackets_must_be_sorted                                     *)
(***************************************************************************)
RECURSIVE Insert(_, _)
Insert(x, s) ==
    IF s = <<>> THEN <<x>>
    ELSE IF x <= Head(s) THEN <<x>> \o s
    ELSE <<Head(s)>> \o Insert(x, Tail(s))

RECURSIVE sorted(_)
sorted(s) == IF s = <<>> THEN <<>> ELSE Insert(Head(s), sorted(Tail(s)))

Thresholds(v) == [i \in 1..Len(v) |-> v[i].threshold]

brackets_unchecked(v) == TRUE

brackets_must_be_sorted(v) == Thresholds(v) = sorted(Thresholds(v))

(***************************************************************************)
(* TaxSchedule(...): field validation followed by the brackets validator   *)
(***************************************************************************)
TaxScheduleValid(year, e, v) ==
    /\ year >= 2000
    /\ year <= 2100
    /\ ExemptionValid(e)
    /\ Len(v) >= 1
    /\ \A i \in 1..Len(v) : TaxBracketValid(v[i])
    /\ brackets_must_be_sorted(v)

TaxSchedule(year, e, v) == [year |-> year, exemption |-> e, brackets |-> v]

(***************************************************************************)
(* TaxSchedule.compute_tax                                                 *)
(***************************************************************************)
Return(v) == [kind |-> "return", value |-> v]
Raise(err) == [kind |-> "raise", value |-> err]

\* the for loop of compute_tax from index i on; taxable is scaled by RateDen
RECURSIVE BracketLoopNoBreak(_, _, _, _)
BracketLoopNoBreak(brackets, taxable, i, tax) ==
    IF i > Len(brackets) THEN tax
    ELSE LET bracket_top == IF i + 1 <= Len(brackets)
                            THEN Min(taxable, brackets[i + 1].threshold * RateDen)
                            ELSE taxable
             taxable_in_bracket == bracket_top - brackets[i].threshold * RateDen
         IN  BracketLoopNoBreak(brackets, taxable, i + 1,
                                tax + taxable_in_bracket * brackets[i].rate)

RECURSIVE BracketLoopNoMin(_, _, _, _)
BracketLoopNoMin(brackets, taxable, i, tax) ==
    IF i > Len(brackets) THEN tax
    ELSE IF taxable <= brackets[i].threshold * RateDen THEN tax
    ELSE BracketLoopNoMin(brackets, taxable, i + 1,
                          tax + (taxable - brackets[i].threshold * RateDen)
                                * brackets[i].rate)

RECURSIVE BracketLoop(_, _, _, _)
BracketLoop(brackets, taxable, i, tax) ==
    IF i > Len(brackets) THEN tax
    ELSE IF taxable <= brackets[i].threshold * RateDen THEN tax
    ELSE LET bracket_top == IF i + 1 <= Len(brackets)
                            THEN Min(taxable, brackets[i + 1].threshold * RateDen)
                            ELSE taxable
             taxable_in_bracket == bracket_top - brackets[i].threshold * RateDen
         IN  BracketLoop(brackets, taxable, i + 1,
                         tax + taxable_in_bracket * brackets[i].rate)

compute_tax_nocheck(s, income) ==
    LET taxable == income * RateDen - ExemptionCompute(s.exemption, income)
    IN  IF taxable <= 0 THEN Return(0)
        ELSE Return(BracketLoop(s.brackets, taxable, 1, 0))

compute_tax_noexempt(s, income) ==
    IF income < 0 THEN Raise("ValueError")
    ELSE IF income <= 0 THEN Return(0)
    ELSE Return(BracketLoop(s.brackets, income * RateDen, 1, 0))

compute_tax(s, income) ==
    IF income < 0 THEN Raise("ValueError")
    ELSE LET exemption == ExemptionCompute(s.exemption, income)
             taxable == income * RateDen - exemption
         IN  IF taxable <= 0 THEN Return(0)
             ELSE Return(BracketLoop(s.brackets, taxable, 1, 0))

(***************************************************************************)
(* The two module-level schedules                                          *)
(***************************************************************************)
\* the schedule with the previous year's standard deduction left in place
ORDINARY_SCHEDULE_stale ==
    TaxSchedule(2025, Exemption(14600, None, None),
                << TaxBracket(0, 10), TaxBracket(11925, 12), TaxBracket(48475, 22),
                   TaxBracket(103350, 24), TaxBracket(197300, 32),
                   TaxBracket(250525, 35), TaxBracket(626350, 37) >>)

ORDINARY_SCHEDULE ==
    TaxSchedule(2025, Exemption(15750, None, None),
                << TaxBracket(0, 10), TaxBracket(11925, 12), TaxBracket(48475, 22),
                   TaxBracket(103350, 24), TaxBracket(197300, 32),
                   TaxBracket(250525, 35), TaxBracket(626350, 37) >>)

AMT_SCHEDULE ==
    TaxSchedule(2025, Exemption(88100, Some(626350), Some(25)),
                << TaxBracket(0, 26), TaxBracket(239100, 28) >>)

(***************************************************************************)
(* State.  args are the arguments of one TaxSchedule(...) expression;      *)
(* status tells how far its evaluation got; call is the most recent method *)
(* call and its outcome.  ordinary_schedule, amt_schedule and base_income   *)
(* are the arguments of one compute_spread call, root the state of the     *)
(* root-finder it runs and spread its outcome.                             *)
(***************************************************************************)
VARIABLES args, status, call,
          ordinary_schedule, amt_schedule, base_income, root, spread

vars == << args, status, call, ordinary_schedule, amt_schedule, base_income, root, spread >>

taxVars == << args, status, call >>
spreadVars == << ordinary_schedule, amt_schedule, base_income, root, spread >>

Rates == {0, 50, RateDen}
PhaseoutRates == {None, Some(25), Some(RateDen)}
PhaseoutStarts == {None} \cup {Some(v) : v \in 0..MaxStart}
BracketInputs == {TaxBracket(t, r) : t \in -1..MaxThreshold, r \in Rates}
BracketLists == UNION {[1..n -> BracketInputs] : n \in 0..MaxBrackets}
ExemptionInputs ==
    {Exemption(b, s, r) : b \in -1..MaxBase, s \in PhaseoutStarts, r \in PhaseoutRates}

BuiltinArgs == {ORDINARY_SCHEDULE, AMT_SCHEDULE}
ExampleIncomes == {100000, 300000}

\* incomes a call is tried with; the worked examples' incomes only with the
\* module-level schedules, whose taxes fit the integer width
Incomes(a) == (-1..MaxIncome) \cup (IF a \in BuiltinArgs THEN ExampleIncomes ELSE {})

NoCall == [op |-> "none", income |-> 0, outcome |-> Return(0)]
RootIdle == [pc |-> "idle", x |-> 0, nfev |-> 0, delta |-> 0, success |-> FALSE]
NoResult == [kind |-> "none", value |-> 0]

Init ==
    /\ args \in {TaxSchedule(2025, e, v) : e \in ExemptionInputs, v \in BracketLists}
                \cup BuiltinArgs
    /\ status = "args"
    /\ call = NoCall
    /\ ordinary_schedule = ORDINARY_SCHEDULE
    /\ amt_schedule = AMT_SCHEDULE
    /\ base_income = 0
    /\ root = RootIdle
    /\ spread = NoResult

\* Exemption(base_amount=..., phaseout_start=..., phaseout_rate=...)
ConstructExemption ==
    /\ status = "args"
    /\ status' = IF ExemptionValid(args.exemption) THEN "exemption" ELSE "ValidationError"
    /\ UNCHANGED << args, call, spreadVars >>

\* TaxSchedule(year=..., exemption=..., brackets=[...])
ConstructSchedule ==
    /\ status = "exemption"
    /\ status' = IF TaxScheduleValid(args.year, args.exemption, args.brackets)
                 THEN "built" ELSE "ValidationError"
    /\ UNCHANGED << args, call, spreadVars >>

CallExemptionCompute ==
    /\ status \in {"exemption", "built"}
    /\ \E income \in Incomes(args) :
          call' = [op |-> "Exemption.compute", income |-> income,
                   outcome |-> Return(ExemptionCompute(args.exemption, income))]
    /\ UNCHANGED << args, status, spreadVars >>

CallComputeTax ==
    /\ status = "built"
    /\ \E income \in Incomes(args) :
          call' = [op |-> "compute_tax", income |-> income,
                   outcome |-> compute_tax(args, income)]
    /\ UNCHANGED << args, status, spreadVars >>

Next ==
    \/ ConstructExemption
    \/ ConstructSchedule
    \/ CallExemptionCompute
    \/ CallComputeTax

Spec == Init /\ [][Next]_vars

(***************************************************************************)
(* compute_spread.  The iterate of the root-finder is a float; it is       *)
(* carried in fixed point, as the integer x = total_income * XDen, and the *)
(* AMT schedule is evaluated on amounts scaled alike, so the residual is   *)
(* the exact value of objective times XDen * RateDen * RateDen.            *)
(*                                                                         *)
(* scipy.optimize.root (method hybr) is library code.  In one dimension    *)
(* its iteration is modelled as: a forward-difference slope at x; a Newton *)
(* step clipped to the trust radius delta (initially Factor * |x|), or a   *)
(* step of length delta against the sign of the residual when the slope is *)
(* zero; the trial point is accepted if it reduces the residual, otherwise *)
(* delta becomes half the rejected step.  It ends converged at a residual within its            *)
(* resolution, and unconverged when no step can change the residual or the *)
(* evaluation budget is spent.  An exception of objective leaves it.       *)
(***************************************************************************)
XDen == 200
Factor == 100
MaxFev == 5

\* 1e-2 money units in the scale of the residual
Tol == (XDen * RateDen * RateDen) \div 100
\* the residual at the grid point nearest to a root (slope at most 2)
Resolution == RateDen * RateDen

ScaleSchedule(s, k) ==
    [year |-> s.year,
     exemption |-> [base_amount |-> s.exemption.base_amount * k,
                    phaseout_start |-> {v * k : v \in s.exemption.phaseout_start},
                    phaseout_rate |-> s.exemption.phaseout_rate],
     brackets |-> [i \in 1..Len(s.brackets) |->
                      TaxBracket(s.brackets[i].threshold * k, s.brackets[i].rate)]]

\* objective(additional_income) within compute_spread, at total_income = x / XDen
objective(income, ordinary, amt, x) ==
    LET amt_tax == compute_tax(ScaleSchedule(amt, XDen), x)
        ordinary_tax == compute_tax(ordinary, income)
    IN  IF amt_tax.kind = "raise" THEN amt_tax
        ELSE IF ordinary_tax.kind = "raise" THEN ordinary_tax
        ELSE Return(amt_tax.value - XDen * ordinary_tax.value)

\* a / b rounded to the nearest integer, b > 0
RoundDiv(a, b) == (a + b \div 2) \div b

\* from this point on the AMT tax is linear in x: past the last bracket
\* threshold and past the end of the phaseout
LastKink(amt) ==
    LET e == amt.exemption
        v == amt.brackets
    IN  (v[Len(v)].threshold + e.base_amount
           + (IF PhaseoutConfigured(e) /\ Val(e.phaseout_rate) > 0
              THEN Val(e.phaseout_start)
                     + (e.base_amount * RateDen) \div Val(e.phaseout_rate) + 1
              ELSE 0)) * XDen

\* the trial point of one iteration from x with residual f and slope
TrialPoint(x, delta, f, slope) ==
    IF slope = 0 THEN (IF f > 0 THEN x - delta ELSE x + delta)
    ELSE x - Max(-delta, Min(delta, RoundDiv(f, slope)))

SpreadExemptions ==
    {Exemption(b, None, None) : b \in 0..MaxBase}
        \cup {Exemption(b, Some(MaxStart), Some(RateDen)) : b \in 0..MaxBase}

ValidBracketLists ==
    {v \in BracketLists :
        /\ Len(v) >= 1
        /\ \A i \in 1..Len(v) : TaxBracketValid(v[i])
        /\ brackets_must_be_sorted(v)}

AmtSchedules ==
    {TaxSchedule(2025, e, v) : e \in SpreadExemptions, v \in ValidBracketLists}

OrdinarySchedules ==
    {TaxSchedule(2025, Exemption(0, None, None), << TaxBracket(0, r) >>) : r \in Rates}

InitSpread ==
    /\ args = ORDINARY_SCHEDULE
    /\ status = "built"
    /\ call = NoCall
    /\ ordinary_schedule \in OrdinarySchedules
    /\ amt_schedule \in AmtSchedules
    /\ base_income = 0
    /\ root = RootIdle
    /\ spread = NoResult

\* compute_spread(income, ordinary_schedule, amt_schedule): the initial guess
CallComputeSpread ==
    /\ root.pc = "idle"
    /\ \E income \in -1..MaxIncome :
          LET initial_guess == (income + amt_schedule.exemption.base_amount) * XDen
          IN  /\ base_income' = income
              /\ root' = [pc |-> "iterating", x |-> initial_guess, nfev |-> 0,
                          delta |-> IF initial_guess = 0 THEN Factor * XDen
                                    ELSE Factor * Abs(initial_guess),
                          success |-> FALSE]
    /\ UNCHANGED << taxVars, ordinary_schedule, amt_schedule, spread >>

Residual(x) == objective(base_income, ordinary_schedule, amt_schedule, x)
Slope(x) == Residual(x + 1).value - Residual(x).value
Trial == TrialPoint(root.x, root.delta, Residual(root.x).value, Slope(root.x))
Flat == Slope(root.x) = 0 /\ Residual(root.x).value < 0 /\ root.x >= LastKink(amt_schedule)

\* an exception of objective (a negative total_income or base income)
\* leaves scipy.optimize.root and compute_spread
RootRaise ==
    /\ root.pc = "iterating"
    /\ \/ /\ Residual(root.x).kind = "raise"
          /\ spread' = Residual(root.x)
       \/ /\ Residual(root.x).kind = "return"
          /\ Abs(Residual(root.x).value) > Resolution
          /\ root.nfev < MaxFev
          /\ ~Flat
          /\ Residual(Trial).kind = "raise"
          /\ spread' = Residual(Trial)
    /\ root' = [root EXCEPT !.pc = "raised"]
    /\ UNCHANGED << taxVars, ordinary_schedule, amt_schedule, base_income >>

\* the residual is within the solver's resolution: converged
RootConverge ==
    /\ root.pc = "iterating"
    /\ Residual(root.x).kind = "return"
    /\ Abs(Residual(root.x).value) <= Resolution
    /\ root' = [root EXCEPT !.pc = "finished", !.success = TRUE]
    /\ UNCHANGED << taxVars, ordinary_schedule, amt_schedule, base_income, spread >>

\* the residual is constant from x on, or the budget is spent: unconverged
RootGiveUp ==
    /\ root.pc = "iterating"
    /\ Residual(root.x).kind = "return"
    /\ Abs(Residual(root.x).value) > Resolution
    /\ \/ root.nfev >= MaxFev
       \/ Flat
    /\ root' = [root EXCEPT !.pc = "finished", !.success = FALSE]
    /\ UNCHANGED << taxVars, ordinary_schedule, amt_schedule, base_income, spread >>

\* one iteration: the trial point is accepted, or the trust radius shrinks
RootStep ==
    /\ root.pc = "iterating"
    /\ Residual(root.x).kind = "return"
    /\ Abs(Residual(root.x).value) > Resolution
    /\ root.nfev < MaxFev
    /\ ~Flat
    /\ Residual(Trial).kind = "return"
    /\ root' = IF Abs(Residual(Trial).value) < Abs(Residual(root.x).value)
               THEN [root EXCEPT !.x = Trial, !.nfev = root.nfev + 1]
               ELSE [root EXCEPT !.delta = Max(Min(root.delta, Abs(Trial - root.x)) \div 2, 1),
                                 !.nfev = root.nfev + 1]
    /\ UNCHANGED << taxVars, ordinary_schedule, amt_schedule, base_income, spread >>

\* return result.x[0] - income, whatever result.success is
SpreadReturn ==
    /\ root.pc = "finished"
    /\ spread.kind = "none"
    /\ spread' = Return(root.x - base_income * XDen)
    /\ UNCHANGED << taxVars, ordinary_schedule, amt_schedule, base_income, root >>

NextSpread ==
    \/ CallComputeSpread
    \/ RootRaise
    \/ RootConverge
    \/ RootGiveUp
    \/ RootStep
    \/ SpreadReturn

SpecSpread == InitSpread /\ [][NextSpread]_vars

(***************************************************************************)
(* Properties of the tax engine                                            *)
(***************************************************************************)
IsComputeTax == call.op = "compute_tax"
IsExemptionCompute == call.op = "Exemption.compute"
ExactlyOnePhaseoutField(e) == (e.phaseout_start = None) # (e.phaseout_rate = None)
NonDecreasing(t) == \A i \in 1..(Len(t) - 1) : t[i] <= t[i + 1]
StrictlyIncreasing(t) == \A i \in 1..(Len(t) - 1) : t[i] < t[i + 1]

\* C1: compute_tax ends in the error outcome exactly for the negative incomes:
\* a negative income raises ValueError and returns no value, an income >= 0
\* does not raise.
C1_NegativeIncomeRaises ==
    IsComputeTax =>
        /\ (call.income < 0 => call.outcome = Raise("ValueError"))
        /\ (call.income >= 0 => call.outcome.kind = "return")

C1_Witness ==
    /\ IsComputeTax
    /\ call.income < 0
    /\ call.outcome.kind = "raise"

\* C2 as stated: a constructed TaxSchedule has strictly ascending thresholds
\* (two brackets with the same threshold are rejected).
C2_StrictlySorted ==
    status = "built" => StrictlyIncreasing(Thresholds(args.brackets))

\* C2 amended: a constructed TaxSchedule has thresholds in non-decreasing
\* order: a bracket list with a threshold below its predecessor's is rejected,
\* and a list whose fields are valid and whose thresholds never decrease
\* (equal neighbours included) is accepted.
C2_SortedNonStrict ==
    /\ status = "built" => NonDecreasing(Thresholds(args.brackets))
    /\ (/\ status = "ValidationError"
        /\ ExemptionValid(args.exemption)
        /\ Len(args.brackets) >= 1
        /\ \A i \in 1..Len(args.brackets) : TaxBracketValid(args.brackets[i]))
       => ~NonDecreasing(Thresholds(args.brackets))

C2_Witness ==
    /\ status = "built"
    /\ Len(args.brackets) = 2
    /\ args.brackets[1].threshold = args.brackets[2].threshold

\* C3 as stated: for every income with 0 <= income < base_amount, whatever
\* the phaseout fields, compute_tax returns exactly 0.
C3_ZeroBelowBase ==
    (IsComputeTax /\ call.income >= 0 /\ call.income < args.exemption.base_amount)
        => call.outcome = Return(0)

\* C3 amended: for every income with 0 <= income < base_amount at which the
\* phaseout does not apply (the phaseout fields are not both set, or
\* income <= phaseout_start), compute_tax returns exactly 0.
C3_ZeroBelowBaseNoPhaseout ==
    (/\ IsComputeTax
     /\ call.income >= 0
     /\ call.income < args.exemption.base_amount
     /\ (PhaseoutConfigured(args.exemption)
            => call.income <= Val(args.exemption.phaseout_start)))
        => call.outcome = Return(0)

C3_Witness ==
    /\ IsComputeTax
    /\ call.income > 0
    /\ call.income < args.exemption.base_amount
    /\ PhaseoutConfigured(args.exemption)
    /\ call.income <= Val(args.exemption.phaseout_start)
    /\ args.brackets[1].threshold = 0
    /\ args.brackets[1].rate > 0
    /\ call.outcome = Return(0)

\* C4: compute_tax is non-decreasing in income: the tax returned for an
\* income b is at least the tax of every income a with 0 <= a <= b.
C4_Monotone ==
    (IsComputeTax /\ call.income >= 0) =>
        \A a \in Incomes(args) :
            (0 <= a /\ a <= call.income)
                => compute_tax(args, a).value <= call.outcome.value

\* b is past the phaseout start and a bracket threshold, a is before both
C4_Witness ==
    /\ IsComputeTax
    /\ PhaseoutConfigured(args.exemption)
    /\ Val(args.exemption.phaseout_rate) > 0
    /\ call.income > Val(args.exemption.phaseout_start)
    /\ Len(args.brackets) = 2
    /\ call.income * RateDen - ExemptionCompute(args.exemption, call.income)
           > args.brackets[2].threshold * RateDen
    /\ \E a \in 0..call.income :
          /\ a <= Val(args.exemption.phaseout_start)
          /\ compute_tax(args, a).value > 0
          /\ compute_tax(args, a).value < call.outcome.value

\* the upper bound of bracket i, scaled by RateDen; Infinity for the last one
Infinity == -1
NextThreshold(v, i) == IF i + 1 <= Len(v) THEN v[i + 1].threshold * RateDen ELSE Infinity

BracketShare(v, i, taxable) ==
    LET lo == v[i].threshold * RateDen
        hi == NextThreshold(v, i)
    IN  IF hi # Infinity /\ hi <= taxable THEN v[i].rate * (hi - lo)
        ELSE IF lo >= taxable THEN 0
        ELSE v[i].rate * (taxable - lo)

RECURSIVE SumShares(_, _, _)
SumShares(v, n, taxable) ==
    IF n = 0 THEN 0 ELSE SumShares(v, n - 1, taxable) + BracketShare(v, n, taxable)

\* C9: for income >= 0 compute_tax returns the stacked-bracket sum of
\* taxable = income - exemption: a bracket wholly below taxable contributes
\* its rate times its full span, the bracket containing taxable its rate times
\* (taxable - threshold), a bracket at or above taxable nothing; the result
\* is 0 when taxable <= 0.
C9_StackedBrackets ==
    (IsComputeTax /\ call.income >= 0) =>
        LET taxable == call.income * RateDen
                         - ExemptionCompute(args.exemption, call.income)
        IN  IF taxable <= 0 THEN call.outcome = Return(0)
            ELSE call.outcome =
                   Return(SumShares(args.brackets, Len(args.brackets), taxable))

\* taxable lies inside the second bracket, the first is taxed over its span
C9_Witness ==
    /\ IsComputeTax
    /\ Len(args.brackets) = 2
    /\ args.brackets[1].rate > 0
    /\ args.brackets[2].rate > 0
    /\ args.brackets[1].threshold < args.brackets[2].threshold
    /\ call.income * RateDen - ExemptionCompute(args.exemption, call.income)
           > args.brackets[2].threshold * RateDen
    /\ call.outcome.kind = "return"
    /\ call.outcome.value >
           args.brackets[1].rate
             * (args.brackets[2].threshold - args.brackets[1].threshold) * RateDen

\* C10: Exemption.compute returns base_amount when phaseout_start is unset
\* or income <= phaseout_start, and max(base_amount - phaseout_rate *
\* (income - phaseout_start), 0) when both phaseout fields are set and
\* income > phaseout_start; the result always lies in [0, base_amount].
C10_ExemptionContract ==
    IsExemptionCompute =>
        LET e == args.exemption
            r == call.outcome.value
        IN  /\ call.outcome.kind = "return"
            /\ (e.phaseout_start = None => r = e.base_amount * RateDen)
            /\ (e.phaseout_start # None /\ call.income <= Val(e.phaseout_start)
                   => r = e.base_amount * RateDen)
            /\ (PhaseoutConfigured(e) /\ call.income > Val(e.phaseout_start)
                   => \/ /\ r = 0
                         /\ e.base_amount * RateDen
                              <= Val(e.phaseout_rate) * (call.income - Val(e.phaseout_start))
                      \/ /\ r > 0
                         /\ r = e.base_amount * RateDen
                                  - Val(e.phaseout_rate) * (call.income - Val(e.phaseout_start)))
            /\ r >= 0
            /\ r <= e.base_amount * RateDen

\* the floor is active: the linear reduction exceeds base_amount
C10_Witness ==
    /\ IsExemptionCompute
    /\ PhaseoutConfigured(args.exemption)
    /\ call.income > Val(args.exemption.phaseout_start)
    /\ Val(args.exemption.phaseout_rate) * (call.income - Val(args.exemption.phaseout_start))
           > args.exemption.base_amount * RateDen
    /\ args.exemption.base_amount > 0
    /\ call.outcome = Return(0)

C8_WorkedExamples ==
    /\ (IsComputeTax /\ args = ORDINARY_SCHEDULE /\ call.income = 100000)
          => call.outcome = Return(13449 * RateDen * RateDen)
    /\ (IsComputeTax /\ args = AMT_SCHEDULE /\ call.income = 300000)
          => call.outcome = Return(55094 * RateDen * RateDen)

C8_Witness ==
    /\ IsComputeTax
    /\ \/ args = ORDINARY_SCHEDULE /\ call.income = 100000
       \/ args = AMT_SCHEDULE /\ call.income = 300000
    /\ call.outcome.kind = "return"
    /\ call.outcome.value > 0

(***************************************************************************)
(* Properties of compute_spread                                            *)
(***************************************************************************)
\* C5: every value s that compute_spread returns satisfies
\* abs(amt.compute_tax(income + s) - ordinary.compute_tax(income)) < 0.01.
C5_ReturnedSpreadIsRoot ==
    spread.kind = "return" =>
        LET f == objective(base_income, ordinary_schedule, amt_schedule,
                           base_income * XDen + spread.value)
        IN  f.kind = "return" /\ Abs(f.value) < Tol

\* C6: whenever the root-finder ends without having converged, compute_spread
\* ends in a RootFindingFailure error and returns no spread value.
C6_UnconvergedRaises ==
    (root.pc = "finished" /\ ~root.success /\ spread.kind # "none")
        => spread = Raise("RootFindingFailure")

====
